---- MODULE Spec2Model ----
(***************************************************************************)
(* Model of the `short` crate (src/short/src/lib.rs): a LinkManager that   *)
(* owns a sled database handle, generate_link (validate, build, encode,    *)
(* insert) and resolve_link (get, decode).                                 *)
(*                                                                         *)
(* Strings are sequences of bytes (ASCII codes).  The database is a        *)
(* function from keys (byte strings) to values (byte strings).  A bincode  *)
(* u64 length prefix is one cell of the encoded sequence.                  *)
(*                                                                         *)
(* The database starts empty and its operations succeed: sled::Error       *)
(* (DbAccessFailure) and JoinError come from the disk and the runtime, not *)
(* from this code, and are not modelled.                                   *)
(*                                                                         *)
(* generate_link is two steps per task, GenBuild and GenInsert: tasks on   *)
(* other threads run between the building of the Link and db.insert, which *)
(* sled makes atomic.  resolve_link is one step, its single db.get.        *)
(***************************************************************************)
EXTENDS Integers, Sequences, FiniteSets, TLC

(* ------------------------------------------------------------------ *)
(* Bounds                                                              *)
(* ------------------------------------------------------------------ *)

\* Longest alias list a caller passes.
MaxAliases == 3

(* ------------------------------------------------------------------ *)
(* Inputs                                                              *)
(* ------------------------------------------------------------------ *)

\* "https://farts.google.com"  (tests::try_generation)
FartsUrl == <<104, 116, 116, 112, 115, 58, 47, 47, 102, 97, 114, 116, 115, 46,
              103, 111, 111, 103, 108, 101, 46, 99, 111, 109>>

\* "https://put.that.thang/away"  (tests::try_generation)
ThangUrl == <<104, 116, 116, 112, 115, 58, 47, 47, 112, 117, 116, 46, 116, 104,
              97, 116, 46, 116, 104, 97, 110, 103, 47, 97, 119, 97, 121>>

\* "not a url": no scheme
NotAUrl == <<110, 111, 116, 32, 97, 32, 117, 114, 108>>

\* "https://": special scheme, empty host
EmptyHostUrl == <<104, 116, 116, 112, 115, 58, 47, 47>>

RawLinks == {FartsUrl, ThangUrl, NotAUrl, EmptyHostUrl}

\* "my link"
MyLink == <<109, 121, 32, 108, 105, 110, 107>>

\* "a/b"
SlashAlias == <<97, 47, 98>>

\* The alias lists callers pass: the empty list, and the list of MaxAliases
\* entries "my link", "a/b", "a/b", "my link", "a/b", "a/b", ... (different
\* entries in an order, and an entry twice).
AliasEntry(i) == IF i % 3 = 1 THEN MyLink ELSE SlashAlias

AliasLists == { [i \in 1..n |-> AliasEntry(i)] : n \in {0, MaxAliases} }

\* Option<Vec<String>>: None, or Some(list)
None == [some |-> FALSE, list |-> <<>>]
Some(list) == [some |-> TRUE, list |-> list]
AliasArgs == {None} \cup { Some(l) : l \in AliasLists }

\* Uuid::new_v4() draws 16 random bytes; two of its values.
Uuids == { [i \in 1..16 |-> b] : b \in {17, 34} }

\* "farts"
Farts == <<102, 97, 114, 116, 115>>

\* "nope"
Nope == <<110, 111, 112, 101>>

\* Short codes callers ask resolve_link for.
ShortCodes == {Farts, Nope, <<>>}

(* ------------------------------------------------------------------ *)
(* Url::parse (line 58), for URLs over lower-case ASCII with no port,   *)
(* userinfo, query or fragment                                          *)
(* ------------------------------------------------------------------ *)

IsAlpha(b) == (b \in 65..90) \/ (b \in 97..122)
IsDigit(b) == b \in 48..57

\* Position of the first ':' of s, 0 when there is none.
SchemeEnd(s) ==
    IF \E i \in 1..Len(s) : s[i] = 58
    THEN CHOOSE i \in 1..Len(s) : s[i] = 58 /\ \A j \in 1..(i - 1) : s[j] # 58
    ELSE 0

\* A scheme is an ASCII letter followed by letters, digits, '+', '-', '.'.
ValidScheme(s, e) ==
    /\ e > 1
    /\ IsAlpha(s[1])
    /\ \A j \in 2..(e - 1) : IsAlpha(s[j]) \/ IsDigit(s[j]) \/ s[j] \in {43, 45, 46}

\* "http" and "https" are special schemes: they need a host.
IsSpecial(scheme) ==
    scheme \in { <<104, 116, 116, 112>>, <<104, 116, 116, 112, 115>> }

\* s without its leading '/' and '\' bytes
RECURSIVE SkipSlashes(_)
SkipSlashes(s) ==
    IF s # <<>> /\ Head(s) \in {47, 92} THEN SkipSlashes(Tail(s)) ELSE s

\* Length of the host: the bytes of s before the first '/'.
RECURSIVE HostLen(_)
HostLen(s) ==
    IF s = <<>> \/ Head(s) = 47 THEN 0 ELSE 1 + HostLen(Tail(s))

\* Url::parse: the serialization of the parsed URL, or an error.  A special
\* URL with an empty path gets the path "/".
UrlParse(s) ==
    LET e == SchemeEnd(s) IN
    IF ~ValidScheme(s, e)
    THEN [ok |-> FALSE, err |-> "RelativeUrlWithoutBase", url |-> <<>>]
    ELSE LET scheme == SubSeq(s, 1, e - 1)
             rest   == SubSeq(s, e + 1, Len(s))
         IN  IF ~IsSpecial(scheme)
             THEN [ok |-> TRUE, err |-> "", url |-> s]
             ELSE LET after == SkipSlashes(rest)
                      h     == HostLen(after)
                      host  == SubSeq(after, 1, h)
                      path  == SubSeq(after, h + 1, Len(after))
                  IN  IF h = 0
                      THEN [ok |-> FALSE, err |-> "EmptyHost", url |-> <<>>]
                      ELSE [ok |-> TRUE, err |-> "",
                            url |-> scheme \o <<58, 47, 47>> \o host \o
                                    (IF path = <<>> THEN <<47>> ELSE path)]

(* ------------------------------------------------------------------ *)
(* urlencoding::encode (line 64)                                        *)
(* ------------------------------------------------------------------ *)

\* Bytes left as they are: ASCII letters, digits, '-', '.', '_', '~'.
Unreserved(b) == IsAlpha(b) \/ IsDigit(b) \/ b \in {45, 46, 95, 126}

\* Upper-case hexadecimal digit of n in 0..15
HexDigit(n) == IF n < 10 THEN 48 + n ELSE 55 + n

\* The plausible slip: form encoding, which writes a space as '+'.
EncodeByteForm(b) ==
    IF Unreserved(b) THEN <<b>>
    ELSE IF b = 32 THEN <<43>>
    ELSE <<37, HexDigit(b \div 16), HexDigit(b % 16)>>

\* One byte, percent-encoded: "%XX" unless unreserved.
EncodeByte(b) ==
    IF Unreserved(b) THEN <<b>>
    ELSE <<37, HexDigit(b \div 16), HexDigit(b % 16)>>

RECURSIVE UrlEncode(_)
UrlEncode(s) ==
    IF s = <<>> THEN <<>> ELSE EncodeByte(Head(s)) \o UrlEncode(Tail(s))

\* aliases.map(|list| list.iter().map(encode).collect())
EncodeAliases(a) ==
    IF a.some
    THEN Some([i \in 1..Len(a.list) |-> UrlEncode(a.list[i])])
    ELSE None

(* ------------------------------------------------------------------ *)
(* Link and its bincode encoding (lines 103-117, 93)                    *)
(* ------------------------------------------------------------------ *)

\* struct Link { identifier, original_link, shortened_link, aliases }
Link(id, url, short, al) ==
    [identifier |-> id, original_link |-> url, shortened_link |-> short,
     aliases |-> al]

NoLink == Link(<<>>, <<>>, <<>>, None)

\* A byte string or a str: its length, then its bytes.
WriteBytes(s) == <<Len(s)>> \o s

\* The elements of a Vec<String>, one after the other.
RECURSIVE WriteStrings(_)
WriteStrings(list) ==
    IF list = <<>> THEN <<>>
    ELSE WriteBytes(Head(list)) \o WriteStrings(Tail(list))

\* Option<Vec<String>>: tag 0, or tag 1, the length and the elements.
WriteAliases(a) ==
    IF a.some THEN <<1, Len(a.list)>> \o WriteStrings(a.list) ELSE <<0>>

\* The plausible slip: the fields written in another order than they are read.
EncodeSwapped(l) ==
    WriteBytes(l.identifier) \o WriteBytes(l.shortened_link) \o
    WriteBytes(l.original_link) \o WriteAliases(l.aliases)

\* Link::encode: bincode::serialize(&self), the fields in declaration order.
Encode(l) ==
    WriteBytes(l.identifier) \o WriteBytes(l.original_link) \o
    WriteBytes(l.shortened_link) \o WriteAliases(l.aliases)

\* Reads a length and that many bytes at position pos of buf.
ReadBytes(buf, pos) ==
    IF pos > Len(buf) \/ pos + buf[pos] > Len(buf)
    THEN [ok |-> FALSE, val |-> <<>>, next |-> pos]
    ELSE [ok |-> TRUE, val |-> SubSeq(buf, pos + 1, pos + buf[pos]),
          next |-> pos + buf[pos] + 1]

\* Reads n strings from position pos of buf.
RECURSIVE ReadStrings(_, _, _)
ReadStrings(buf, pos, n) ==
    IF n = 0 THEN [ok |-> TRUE, val |-> <<>>, next |-> pos]
    ELSE LET s == ReadBytes(buf, pos) IN
         IF ~s.ok THEN [ok |-> FALSE, val |-> <<>>, next |-> pos]
         ELSE LET r == ReadStrings(buf, s.next, n - 1) IN
              [ok |-> r.ok, val |-> <<s.val>> \o r.val, next |-> r.next]

\* Reads an Option<Vec<String>> from position pos of buf.
ReadAliases(buf, pos) ==
    IF pos > Len(buf) THEN [ok |-> FALSE, val |-> None]
    ELSE IF buf[pos] = 0 THEN [ok |-> TRUE, val |-> None]
    ELSE IF buf[pos] # 1 \/ pos + 1 > Len(buf) THEN [ok |-> FALSE, val |-> None]
    ELSE LET r == ReadStrings(buf, pos + 2, buf[pos + 1]) IN
         [ok |-> r.ok, val |-> IF r.ok THEN Some(r.val) ELSE None]

\* bincode::deserialize::<Link>: the identifier must be 16 bytes, the
\* original link must parse as a URL (Url's Deserialize parses the string);
\* bytes after the record are ignored.
Decode(buf) ==
    LET id    == ReadBytes(buf, 1)
        url   == ReadBytes(buf, id.next)
        short == ReadBytes(buf, url.next)
        al    == ReadAliases(buf, short.next)
        fail  == [ok |-> FALSE, link |-> NoLink]
    IN  IF ~id.ok \/ Len(id.val) # 16 THEN fail
        ELSE IF ~url.ok \/ ~UrlParse(url.val).ok THEN fail
        ELSE IF ~short.ok THEN fail
        ELSE IF ~al.ok THEN fail
        ELSE [ok |-> TRUE,
              link |-> Link(id.val, UrlParse(url.val).url, short.val, al.val)]

(* ------------------------------------------------------------------ *)
(* sled::Db: a map from keys to values                                  *)
(* ------------------------------------------------------------------ *)

EmptyDb == [k \in {} |-> <<>>]

\* The plausible slip: an insert that keeps the value a key already has.
DbInsertIfAbsent(d, k, v) ==
    IF k \in DOMAIN d THEN d
    ELSE [x \in DOMAIN d \cup {k} |-> IF x = k THEN v ELSE d[x]]

\* db.insert(k, v): sets the value of k, whether or not k has one.
DbInsert(d, k, v) ==
    [x \in DOMAIN d \cup {k} |-> IF x = k THEN v ELSE d[x]]

\* The plausible slip: a lookup that falls back on another key's value.
DbGetNearest(d, k) ==
    IF k \in DOMAIN d THEN [found |-> TRUE, val |-> d[k]]
    ELSE IF DOMAIN d # {}
         THEN [found |-> TRUE, val |-> d[CHOOSE x \in DOMAIN d : TRUE]]
         ELSE [found |-> FALSE, val |-> <<>>]

\* db.get(k): Some(value) when k has one, None when it has not.
DbGet(d, k) ==
    IF k \in DOMAIN d THEN [found |-> TRUE, val |-> d[k]]
    ELSE [found |-> FALSE, val |-> <<>>]

(* ------------------------------------------------------------------ *)
(* LinkManager (lines 17-97)                                            *)
(* ------------------------------------------------------------------ *)

\* The tasks that call into the LinkManager, each through its own clone of
\* the handle (LinkManager is Clone; the clones share the database).
Tasks == {"t1", "t2"}

VARIABLES
    created,      \* LinkManager::create has returned Ok
    db,           \* the contents of the sled database
    pc,           \* per task: "idle", or "insert" (generate_link has built
                  \* its Link and has not inserted it yet)
    pending,      \* per task: the call generate_link is in the middle of
    last,         \* the call that returned last: its arguments, its result,
                  \* and the database operation it made with the kind of
                  \* thread that ran it
    written,      \* history: per short code, the Link the latest successful
                  \* generate_link returned for it
    dupCodes,     \* history: the short codes returned more than once
    overwritten   \* history: the short codes whose record was replaced by
                  \* a different one

vars == <<created, db, pc, pending, last, written, dupCodes,
          overwritten>>

NoPending == [raw |-> <<>>, aliases |-> None, link |-> NoLink]

\* A database operation and the kind of thread that ran it: "blocking" is a
\* thread of the blocking pool (spawn_blocking), "async" is the thread that
\* polls the calling task.
StoreOp(op, thread) == [op |-> op, thread |-> thread]
NoStoreOp == StoreOp("none", "none")

\* A call that has returned: the operation, its arguments (raw and aliases
\* of generate_link, code of resolve_link), its result (res is "Ok" or the
\* LinkError variant, link the Link of Ok, msg the String of LinkNotFound),
\* the number of inserts it made and its database operation.
Call(op, raw, al, code, res, link, msg, inserts, store) ==
    [op |-> op, raw |-> raw, aliases |-> al, code |-> code,
     res |-> res, link |-> link, msg |-> msg, inserts |-> inserts,
     store |-> store]

NoCall == Call("none", <<>>, None, <<>>, "none", NoLink, <<>>, 0, NoStoreOp)

Init ==
    /\ created = FALSE
    /\ db = EmptyDb
    /\ pc = [t \in Tasks |-> "idle"]
    /\ pending = [t \in Tasks |-> NoPending]
    /\ last = NoCall
    /\ written = EmptyDb
    /\ dupCodes = {}
    /\ overwritten = {}

\* let shortened_link = "farts".into();
ShortenedLink == Farts

\* The plausible slip: the link is stored as given when it does not parse.
GenerateOutcomeUnchecked(raw, al, id) ==
    LET p == UrlParse(raw) IN
    [ok |-> TRUE, err |-> "",
     link |-> Link(id, IF p.ok THEN p.url ELSE raw, ShortenedLink,
                   EncodeAliases(al))]

\* generate_link up to the Link it builds: Url::parse(link)?, the new
\* identifier, the encoded aliases, the short code.
GenerateOutcome(raw, al, id) ==
    LET p == UrlParse(raw) IN
    IF ~p.ok
    THEN [ok |-> FALSE, err |-> "InvalidLink", link |-> NoLink]
    ELSE [ok |-> TRUE, err |-> "",
          link |-> Link(id, p.url, ShortenedLink, EncodeAliases(al))]

\* The plausible slip: the aliases made keys too ("TODO: use aliases, too!").
StoreWritesAliases(link) ==
    <<[key |-> link.shortened_link, val |-> Encode(link)]>> \o
    [i \in 1..Len(link.aliases.list) |->
        [key |-> link.aliases.list[i], val |-> Encode(link)]]

\* The plausible slip: the record keyed by its original link.
StoreWritesByUrl(link) ==
    <<[key |-> link.original_link, val |-> Encode(link)]>>

\* The inserts generate_link makes for the Link it built:
\* self.db.insert(shortened_link.clone(), link.clone().encode().await?)
StoreWrites(link) ==
    <<[key |-> link.shortened_link, val |-> Encode(link)]>>

RECURSIVE ApplyWrites(_, _)
ApplyWrites(d, ws) ==
    IF ws = <<>> THEN d
    ELSE ApplyWrites(DbInsert(d, Head(ws).key, Head(ws).val), Tail(ws))

\* resolve_link: db.get(short_link), then bincode::deserialize, or
\* LinkNotFound(short_link).  A bincode error of deserialize is returned as
\* LinkEncodingFailure.
ResolveOutcome(d, code) ==
    LET g == DbGet(d, code) IN
    IF g.found
    THEN LET r == Decode(g.val) IN
         IF r.ok THEN [res |-> "Ok", link |-> r.link, msg |-> <<>>]
         ELSE [res |-> "LinkEncodingFailure", link |-> NoLink, msg |-> <<>>]
    ELSE [res |-> "LinkNotFound", link |-> NoLink, msg |-> code]

\* LinkManager::create(db_location): sled::open runs in spawn_blocking, on
\* the blocking thread pool.  Without a location the temporary directory is
\* used and a warning is logged; the LinkManager is the same.
Create(location) ==
    /\ ~created
    /\ location \in {"temp_dir", "given"}
    /\ created' = TRUE
    /\ last' = Call("create", <<>>, None, <<>>, "Ok", NoLink, <<>>, 0,
                    StoreOp("open", "blocking"))
    /\ UNCHANGED <<db, pc, pending, written, dupCodes, overwritten>>

\* generate_link, lines 56-76: either returns InvalidLink, or has its Link
\* built and goes on to encode().await and the insert.
GenBuild(t, raw, al, id) ==
    /\ created
    /\ pc[t] = "idle"
    /\ LET o == GenerateOutcome(raw, al, id) IN
       IF o.ok
       THEN /\ pc' = [pc EXCEPT ![t] = "insert"]
            /\ pending' = [pending EXCEPT
                             ![t] = [raw |-> raw, aliases |-> al, link |-> o.link]]
            /\ UNCHANGED last
       ELSE /\ last' = Call("generate", raw, al, <<>>, o.err,
                            NoLink, <<>>, 0, NoStoreOp)
            /\ UNCHANGED <<pc, pending>>
    /\ UNCHANGED <<created, db, written, dupCodes, overwritten>>

\* generate_link, lines 78-85: the insert, made by the task's own thread,
\* and Ok(encapsulated_link).
GenInsert(t) ==
    /\ pc[t] = "insert"
    /\ LET link == pending[t].link
           ws   == StoreWrites(link)
           k    == link.shortened_link
       IN  /\ db' = ApplyWrites(db, ws)
           /\ last' = Call("generate", pending[t].raw,
                           pending[t].aliases, <<>>, "Ok", link, <<>>, Len(ws),
                           StoreOp("insert", "async"))
           /\ written' = [x \in DOMAIN written \cup {k} |->
                             IF x = k THEN link ELSE written[x]]
           /\ dupCodes' = IF k \in DOMAIN written
                          THEN dupCodes \cup {k} ELSE dupCodes
           /\ overwritten' = IF k \in DOMAIN written /\ written[k] # link
                             THEN overwritten \cup {k} ELSE overwritten
    /\ pc' = [pc EXCEPT ![t] = "idle"]
    /\ pending' = [pending EXCEPT ![t] = NoPending]
    /\ UNCHANGED created

\* resolve_link(short_link): the get is made by the task's own thread.
Resolve(t, code) ==
    /\ created
    /\ pc[t] = "idle"
    /\ LET o == ResolveOutcome(db, code) IN
       last' = Call("resolve", <<>>, None, code, o.res,
                    o.link, o.msg, 0, StoreOp("get", "async"))
    /\ UNCHANGED <<created, db, pc, pending, written, dupCodes, overwritten>>

Next ==
    \/ \E location \in {"temp_dir", "given"} : Create(location)
    \/ \E t \in Tasks, raw \in RawLinks, al \in AliasArgs, id \in Uuids :
          GenBuild(t, raw, al, id)
    \/ \E t \in Tasks : GenInsert(t)
    \/ \E t \in Tasks, code \in ShortCodes : Resolve(t, code)

Spec == Init /\ [][Next]_vars

(* ------------------------------------------------------------------ *)
(* Properties                                                           *)
(* ------------------------------------------------------------------ *)

GenOk == last.op = "generate" /\ last.res = "Ok"

\* "my%20link"
MyLinkEncoded == <<109, 121, 37, 50, 48, 108, 105, 110, 107>>

\* "a%2Fb"
SlashAliasEncoded == <<97, 37, 50, 70, 98>>

\* C1 (round trip): a resolve_link of a short code that generate_link has
\* returned, with no insert since the latest such generate_link, returns Ok
\* with the very Link that generate_link returned: the same identifier,
\* original link, short code and aliases.
RoundTrip ==
    (last.op = "resolve" /\ last.code \in DOMAIN written)
        => (last.res = "Ok" /\ last.link = written[last.code])

RoundTripWitness ==
    /\ last.op = "resolve"
    /\ last.code \in DOMAIN written
    /\ last.res = "Ok"
    /\ last.link.aliases.some
    /\ Len(last.link.aliases.list) = MaxAliases
    /\ last.link.original_link = FartsUrl \o <<47>>

\* C2 (absence): a resolve_link of a short code that no generate_link has
\* inserted returns LinkNotFound carrying that code; it returns neither a
\* decoding error nor a Link.
Absence ==
    (last.op = "resolve" /\ last.code \notin DOMAIN written)
        => (last.res = "LinkNotFound" /\ last.msg = last.code
            /\ last.link = NoLink)

AbsenceWitness ==
    /\ last.op = "resolve"
    /\ last.code = Nope
    /\ Farts \in DOMAIN db
    /\ last.res = "LinkNotFound"

\* The links callers pass that do not parse as a URL.
InvalidLinks == { raw \in RawLinks : ~UrlParse(raw).ok }

\* C3 (invalid input rejection): a generate_link step whose link does not
\* parse as a URL returns InvalidLink and leaves the database as it was.
InvalidInputRejected ==
    [][\A raw \in InvalidLinks, t \in Tasks, al \in AliasArgs, id \in Uuids :
          GenBuild(t, raw, al, id)
              => (/\ last'.op = "generate"
                  /\ last'.raw = raw
                  /\ last'.res = "InvalidLink"
                  /\ pc'[t] = "idle"
                  /\ db' = db)]_vars

InvalidInputWitness ==
    /\ last.op = "generate"
    /\ last.raw = NotAUrl
    /\ last.res = "InvalidLink"
    /\ Farts \in DOMAIN db

\* C4 (short-code uniqueness): no short code is returned by two successful
\* generate_link calls.
ShortCodesDistinct == dupCodes = {}

\* C5 (record immutability): a record in the database is never changed or
\* removed by a later step.
RecordImmutable ==
    [][\A k \in DOMAIN db : k \in DOMAIN db' /\ db'[k] = db[k]]_vars

\* C6 (last writer wins): of the generate_link calls that returned one short
\* code, the database holds under it the whole record of the one whose
\* insert was made last, and resolve_link of that code returns that record.
LastWriterWins ==
    /\ \A k \in dupCodes :
          /\ k \in DOMAIN db
          /\ db[k] = Encode(written[k])
          /\ Decode(db[k]) = [ok |-> TRUE, link |-> written[k]]
    /\ (last.op = "resolve" /\ last.code \in dupCodes)
          => (last.res = "Ok" /\ last.link = written[last.code])

LastWriterWinsWitness ==
    /\ last.op = "resolve"
    /\ last.code \in overwritten
    /\ last.res = "Ok"
    /\ \E t \in Tasks : pc[t] = "insert" /\ pending[t].link # last.link

\* C7 (store writes): the database changes only in the step in which a
\* generate_link returns Ok, and by the single insert of the returned Link's
\* encoding under its short code; a generate_link that returns Ok has made
\* exactly one insert; a call that returns an error, and every resolve_link,
\* makes none.
StoreWritesAtomic ==
    [][/\ (db' # db)
            => (/\ last'.op = "generate"
                /\ last'.res = "Ok"
                /\ db' = DbInsert(db, last'.link.shortened_link,
                                  Encode(last'.link)))
       /\ \A t \in Tasks :
            GenInsert(t)
                => (/\ last'.inserts = 1
                    /\ last'.link.shortened_link \in DOMAIN db'
                    /\ \A k \in DOMAIN db' :
                          k = last'.link.shortened_link \/ k \in DOMAIN db)
       /\ (last'.op = "resolve" \/ last'.res # "Ok")
            => (last'.inserts = 0 /\ (last' # last => db' = db))]_vars

StoreWritesWitness ==
    /\ GenOk
    /\ last.inserts = 1
    /\ last.link.aliases.some
    /\ Len(last.link.aliases.list) = MaxAliases
    /\ DOMAIN db = {Farts}

\* C8 (alias encoding): the Link a generate_link returns, and the record it
\* stored, has no aliases when none were given, and otherwise as many
\* aliases as were given, the i-th being the percent-encoding of the i-th
\* given ("my link" gives "my%20link", "a/b" gives "a%2Fb").
AliasEncoding ==
    GenOk =>
        LET a == last.aliases
            r == last.link.aliases
            k == last.link.shortened_link
        IN  /\ r.some = a.some
            /\ Len(r.list) = Len(a.list)
            /\ \A i \in 1..Len(a.list) :
                  /\ r.list[i] = UrlEncode(a.list[i])
                  /\ a.list[i] = MyLink => r.list[i] = MyLinkEncoded
                  /\ a.list[i] = SlashAlias => r.list[i] = SlashAliasEncoded
            /\ k \in DOMAIN db
            /\ Decode(db[k]).ok
            /\ Decode(db[k]).link.aliases = r

AliasEncodingWitness ==
    /\ GenOk
    /\ last.aliases.some
    /\ Len(last.aliases.list) = MaxAliases
    /\ last.link.aliases.list[1] = MyLinkEncoded
    /\ last.link.aliases.list[2] = SlashAliasEncoded
    /\ last.link.aliases.list[3] = SlashAliasEncoded

\* C9 (blocking offload): the database operation of every call runs on a
\* thread of the blocking pool, never on the thread that polls the task.
StoreOpsOffloaded ==
    last.store.op # "none" => last.store.thread = "blocking"

\* C10 (key/record consistency): every key of the database holds bytes that
\* decode to a Link whose short code is the key, so resolve_link of a key
\* that is present returns Ok with a Link of that short code.
KeyRecordConsistent ==
    /\ \A k \in DOMAIN db :
          Decode(db[k]).ok /\ Decode(db[k]).link.shortened_link = k
    /\ (last.op = "resolve" /\ last.code \in DOMAIN db)
          => (last.res = "Ok" /\ last.link.shortened_link = last.code)

KeyRecordWitness ==
    /\ last.op = "resolve"
    /\ last.code \in DOMAIN db
    /\ last.res = "Ok"
    /\ last.link.shortened_link = Farts

====
